---- MODULE Spec2Model ----
\* Model of the Quarto preview manager of src/main.ts (QmdAsMdPlugin):
\* the registry activePreviewProcesses, the pane map activeWebViewers, the
\* child processes spawned by startPreviewAndGetUrl / startPreview with their
\* listeners, timers and promises, and the teardown in onunload.
EXTENDS Integers, Sequences, FiniteSets, TLC

\* ---------------------------------------------------------------- bounds
MaxProcs == 2          \* number of child processes spawned in one run
MaxKills == 2          \* saturation of the per-process kill-signal counter

Keys == {"a.qmd", "b.qmd"}
Pids == 1..MaxProcs
NoProc == 0            \* Map.get(key) === undefined
NoLeaf == 0            \* activeWebViewers.get(key) === undefined

VARIABLES
  activePreviewProcesses,  \* Map<string, ChildProcess>: key -> pid or NoProc
  activeWebViewers,        \* Map<string, WorkspaceLeaf>: key -> leaf or NoLeaf
  procs,                   \* every ChildProcess spawned so far, by pid
  leaves,                  \* the panes handed out by getRightLeaf, by pid of the start
  nspawned,                \* number of spawn() calls so far
  useWebViewer,            \* settings.useWebViewer
  isMobile,                \* Platform.isMobile
  unloaded,                \* onunload has run
  b2b                      \* history: the current run of back-to-back togglePreview calls
                           \* (or what the last step was, as each specification says)

vars == <<activePreviewProcesses, activeWebViewers, procs, leaves, nspawned,
          useWebViewer, isMobile, unloaded, b2b>>

\* ---------------------------------------------------------------- stdout
\* A stdout chunk is a sequence of tokens; the tokens stand for the pieces of
\* text the stdout handler distinguishes.
IsSpace(t) == t \in {"SP", "NL"}

Chunks ==
  { <<"BA", "SP", "HTTP", "HOST", "NL">>,
    <<"BA", "SP", "HTTPS", "HOST", "NL">>,
    <<"TXT", "NL">>,
    <<"BA", "SP", "TXT", "NL">> }

\* More of what a child can write, with two different URLs: the marker after
\* two blanks, after a line break inside a chunk, without whitespace, and
\* with the URL in front of 'Browse at'.
StdoutChunks ==
  { <<"BA", "SP", "HTTP", "HOST", "NL">>,
    <<"BA", "SP", "HTTP", "HOST2", "NL">>,
    <<"BA", "SP", "SP", "HTTP", "HOST", "NL">>,
    <<"TXT", "NL", "BA", "NL", "HTTP", "HOST2">>,
    <<"BA", "SP", "HTTPS", "HOST", "NL">>,
    <<"BA", "HTTP", "HOST", "NL">>,
    <<"HTTP", "HOST", "SP", "BA", "NL">>,
    <<"TXT", "NL">> }

\* A marker line that reaches the handler in two chunks: cut inside
\* 'Browse at' ("BA1" and "BA2" are its two halves, neither of which holds
\* the whole text), before the whitespace, and inside the URL; and the same
\* line in one chunk.
SplitChunks ==
  { <<"BA", "SP", "HTTP", "HOST", "PATH", "NL">>,
    <<"BA1">>, <<"BA2", "SP", "HTTP", "HOST", "PATH", "NL">>,
    <<"BA">>, <<"SP", "HTTP", "HOST", "PATH", "NL">>,
    <<"BA", "SP", "HTTP", "HOST">>, <<"PATH", "NL">> }

\* output.includes('Browse at')
includesBrowseAt(c) == \E i \in 1..Len(c) : c[i] = "BA"

\* length of the run of tokens satisfying the class from position i on
RECURSIVE RunLen(_, _, _)
RunLen(c, i, space) ==
  IF i > Len(c) \/ IsSpace(c[i]) # space \/ (~space /\ c[i] = "BA") THEN 0
  ELSE 1 + RunLen(c, i + 1, space)

\* whether /Browse at\s+(http:\/\/[^\s]+)/ matches with 'Browse at' at token i
MatchAt(c, i) ==
  /\ c[i] = "BA"
  /\ RunLen(c, i + 1, TRUE) >= 1
  /\ LET j == i + 1 + RunLen(c, i + 1, TRUE)
     IN  /\ j <= Len(c)
         /\ c[j] = "HTTP"
         /\ RunLen(c, j + 1, FALSE) >= 1

\* output.match(/Browse at\s+(http:\/\/[^\s]+)/): the capture group of the
\* leftmost match, or <<>> when there is none
match(c) ==
  LET hits == { i \in 1..Len(c) : MatchAt(c, i) }
  IN  IF hits = {} THEN <<>>
      ELSE LET i == CHOOSE h \in hits : \A g \in hits : h <= g
               j == i + 1 + RunLen(c, i + 1, TRUE)
           IN  SubSeq(c, j, j + RunLen(c, j + 1, FALSE))

\* what the handler reads from each chunk: the URL it captures, <<>> when
\* the chunk fails the includes test or the pattern
urlOf ==
  [c \in Chunks \cup StdoutChunks \cup SplitChunks |->
     IF includesBrowseAt(c) THEN match(c) ELSE <<>>]

\* ---------------------------------------------------------------- processes
\* One record per ChildProcess:
\*   key, kind   the file.path it was spawned for; "url" when spawned by
\*               startPreviewAndGetUrl, "plain" when spawned by startPreview
\*   st          "failed" (spawn failed, 'error' not yet emitted), "alive",
\*               "closed" ('close' emitted)
\*   killed      process.killed;  kills: signals delivered so far;
\*               killedBy: the operation that sent the signal (history)
\*   lst         the 'error' / 'close' listeners are attached
\*   timer       the 10000 ms start timer is armed
\*   promise     the promise of startPreviewAndGetUrl: "pending", "url", "null"
\*   endpoint    the URL it resolved with
\*   cont        the caller in toggleWebViewer: "await" the promise,
\*               awaiting "setViewState", or "done"
\*   notice      the Notice shown for this start: "timeout", "paneFail"
Unspawned ==
  [key |-> "", kind |-> "none", st |-> "unspawned",
   killed |-> FALSE, kills |-> 0, killedBy |-> "none",
   lst |-> FALSE, timer |-> FALSE,
   promise |-> "na", endpoint |-> <<>>, cont |-> "na", notice |-> "none"]

\* spawn(...) in startPreviewAndGetUrl with the timer, the stdout 'data'
\* listener and the 'error' / 'close' listeners installed
NewUrlProc(k, ok) ==
  [Unspawned EXCEPT !.key = k, !.kind = "url",
                    !.st = IF ok THEN "alive" ELSE "failed",
                    !.lst = TRUE, !.timer = TRUE,
                    !.promise = "pending", !.cont = "await"]

\* spawn(...) in startPreview with only the 'close' listener installed
NewPlainProc(k, ok) ==
  [Unspawned EXCEPT !.key = k, !.kind = "plain",
                    !.st = IF ok THEN "alive" ELSE "failed",
                    !.lst = TRUE]

ExitCodes == {"0", "1"}

Min(a, b) == IF a < b THEN a ELSE b

\* process.kill(): a live child is sent SIGTERM and process.killed becomes
\* true; a child that is gone gets nothing and killed stays false
kill(pr, who) ==
  IF pr.st = "alive"
    THEN [pr EXCEPT !.killed = TRUE, !.kills = Min(@ + 1, MaxKills),
                    !.killedBy = who]
    ELSE pr

\* cleanup(): clearTimeout(timeoutId); process.removeAllListeners()
cleanupKeepsTimer(pr) == [pr EXCEPT !.lst = FALSE]

cleanup(pr) == [pr EXCEPT !.timer = FALSE, !.lst = FALSE]

\* resolve(v) of the promise of startPreviewAndGetUrl: only the first call settles
resolveNullOpensPane(pr) ==
  IF pr.promise = "pending"
    THEN [pr EXCEPT !.promise = "null", !.cont = "setViewState"]
    ELSE pr

resolveNull(pr) ==
  IF pr.promise = "pending"
    THEN [pr EXCEPT !.promise = "null", !.cont = "done"]
    ELSE pr

\* ---------------------------------------------------------------- registry
\* The part of the state stopPreview and stopAllPreviews work on.
Reg == [app |-> activePreviewProcesses, procs |-> procs]

stopPreviewKillOnly(S, k) ==
  LET p == S.app[k]
  IN  IF p # NoProc
        THEN [S EXCEPT !.procs[p] = kill(@, "stopPreview")]
        ELSE S

stopPreview(S, k) ==
  LET p == S.app[k]
  IN  IF p # NoProc
        THEN [app |-> [S.app EXCEPT ![k] = NoProc],
              procs |-> [S.procs EXCEPT
                           ![p] = IF ~@.killed THEN kill(@, "stopPreview") ELSE @]]
        ELSE S

stopAllPreviewsNoClear(S) ==
  [S EXCEPT !.procs =
     [p \in Pids |->
        IF (\E k \in Keys : S.app[k] = p) /\ ~S.procs[p].killed
          THEN kill(S.procs[p], "stopAllPreviews") ELSE S.procs[p]]]

stopAllPreviews(S) ==
  [app |-> [k \in Keys |-> NoProc],
   procs |-> [p \in Pids |->
                IF (\E k \in Keys : S.app[k] = p) /\ ~S.procs[p].killed
                  THEN kill(S.procs[p], "stopAllPreviews") ELSE S.procs[p]]]

\* ---------------------------------------------------------------- initial state
Init ==
  /\ activePreviewProcesses = [k \in Keys |-> NoProc]
  /\ activeWebViewers = [k \in Keys |-> NoLeaf]
  /\ procs = [p \in Pids |-> Unspawned]
  /\ leaves = [p \in Pids |-> "none"]
  /\ nspawned = 0
  /\ useWebViewer = TRUE
  /\ isMobile \in BOOLEAN
  /\ unloaded = FALSE
  /\ b2b = <<>>

\* ---------------------------------------------------------------- operations
\* whether key k has no session at all: no registry entry, no pane, no live child
NoSession(k) ==
  /\ activePreviewProcesses[k] = NoProc
  /\ activeWebViewers[k] = NoLeaf
  /\ \A p \in Pids : procs[p].key = k => procs[p].st = "closed"

B2BAfterToggle(k) ==
  IF b2b = <<k, 1>> THEN <<k, 2>>
  ELSE IF NoSession(k) THEN <<k, 1>>
  ELSE <<>>

\* toggleWebViewer, branch existingViewer: detach, delete, stopPreview
ToggleWebViewerOff(k) ==
  /\ activeWebViewers[k] # NoLeaf
  /\ leaves' = [leaves EXCEPT ![activeWebViewers[k]] = "detached"]
  /\ activeWebViewers' = [activeWebViewers EXCEPT ![k] = NoLeaf]
  /\ activePreviewProcesses' = stopPreview(Reg, k).app
  /\ procs' = stopPreview(Reg, k).procs
  /\ UNCHANGED nspawned

\* startPreviewAndGetUrl up to the point where the promise is returned
startPreviewAndGetUrl(k, ok) ==
  /\ nspawned < MaxProcs
  /\ nspawned' = nspawned + 1
  /\ procs' = [procs EXCEPT ![nspawned + 1] = NewUrlProc(k, ok)]
  /\ activePreviewProcesses' = [activePreviewProcesses EXCEPT ![k] = nspawned + 1]

\* toggleWebViewer, branch without viewer: await startPreviewAndGetUrl(file)
ToggleWebViewerOn(k) ==
  /\ activeWebViewers[k] = NoLeaf
  /\ \E ok \in BOOLEAN : startPreviewAndGetUrl(k, ok)
  /\ UNCHANGED <<activeWebViewers, leaves>>

toggleWebViewer(k) == ToggleWebViewerOff(k) \/ ToggleWebViewerOn(k)

\* startPreview: nothing when the key is registered, else spawn and register
startPreview(k, ok) ==
  IF activePreviewProcesses[k] # NoProc
    THEN UNCHANGED <<nspawned, procs, activePreviewProcesses>>
    ELSE /\ nspawned < MaxProcs
         /\ nspawned' = nspawned + 1
         /\ procs' = [procs EXCEPT ![nspawned + 1] = NewPlainProc(k, ok)]
         /\ activePreviewProcesses' =
              [activePreviewProcesses EXCEPT ![k] = nspawned + 1]

toggleExternalPreview(k) ==
  /\ IF activePreviewProcesses[k] # NoProc
       THEN /\ activePreviewProcesses' = stopPreview(Reg, k).app
            /\ procs' = stopPreview(Reg, k).procs
            /\ UNCHANGED nspawned
       ELSE \E ok \in BOOLEAN : startPreview(k, ok)
  /\ UNCHANGED <<activeWebViewers, leaves>>

\* togglePreview(file), from the ribbon icon or the command
TogglePreviewIgnoresMobile(k) ==
  /\ ~unloaded
  /\ IF useWebViewer
       THEN toggleWebViewer(k)
       ELSE toggleExternalPreview(k)
  /\ b2b' = B2BAfterToggle(k)
  /\ UNCHANGED <<useWebViewer, isMobile, unloaded>>

TogglePreview(k) ==
  /\ ~unloaded
  /\ IF useWebViewer /\ ~isMobile
       THEN toggleWebViewer(k)
       ELSE toggleExternalPreview(k)
  /\ b2b' = B2BAfterToggle(k)
  /\ UNCHANGED <<useWebViewer, isMobile, unloaded>>

\* A failed spawn emits 'error' from process.nextTick, that is before any
\* other event, timer or user action gets to run: only calls made in the
\* same synchronous run as the spawn can come before it.
NoSpawnErrorPending == \A p \in Pids : procs[p].st # "failed"

\* settings tab, 'Use WebViewer' toggle
SetUseWebViewer ==
  /\ ~unloaded
  /\ NoSpawnErrorPending
  /\ useWebViewer' = ~useWebViewer
  /\ b2b' = <<>>
  /\ UNCHANGED <<activePreviewProcesses, activeWebViewers, procs, leaves,
                 nspawned, isMobile, unloaded>>

\* the process.stdout 'data' handler on a chunk whose match is url, followed
\* by the continuation of toggleWebViewer when this call settles the promise:
\* getRightLeaf (null when ~leafOk, reported by a Notice) and the start of
\* leaf.setViewState. A promise that is settled stays as it is.
stdoutHandlerResettles(pr, url, leafOk) ==
  [cleanup(pr) EXCEPT !.promise = "url", !.endpoint = url,
                      !.cont = IF leafOk THEN "setViewState" ELSE "done",
                      !.notice = IF leafOk THEN @ ELSE "paneFail"]

stdoutHandlerSilent(pr, url, leafOk) ==
  IF pr.promise = "pending"
    THEN [cleanup(pr) EXCEPT !.promise = "url", !.endpoint = url,
                             !.cont = IF leafOk THEN "setViewState" ELSE "done"]
    ELSE cleanup(pr)

stdoutHandler(pr, url, leafOk) ==
  IF pr.promise = "pending"
    THEN [cleanup(pr) EXCEPT !.promise = "url", !.endpoint = url,
                             !.cont = IF leafOk THEN "setViewState" ELSE "done",
                             !.notice = IF leafOk THEN @ ELSE "paneFail"]
    ELSE cleanup(pr)

\* process.stdout 'data' event with chunk c on child p, history left aside
StdoutStep(p, c) ==
  /\ NoSpawnErrorPending
  /\ procs[p].kind = "url"
  /\ procs[p].st = "alive"
  /\ LET url == urlOf[c]
     IN  IF url # <<>>
           THEN \E leafOk \in IF procs[p].promise = "pending"
                                THEN BOOLEAN ELSE {TRUE} :
                  /\ procs' = [procs EXCEPT ![p] = stdoutHandler(@, url, leafOk)]
                  /\ leaves' = [leaves EXCEPT
                       ![p] = IF procs[p].promise = "pending" /\ leafOk
                                THEN "open" ELSE @]
           ELSE UNCHANGED <<procs, leaves>>
  /\ UNCHANGED <<activePreviewProcesses, activeWebViewers, nspawned,
                 useWebViewer, isMobile, unloaded>>

\* process.stdout 'data' event with chunk c on child p
StdoutData(p, c) ==
  /\ StdoutStep(p, c)
  /\ b2b' = <<>>

\* toggleWebViewer after 'await leaf.setViewState(...)':
\* activeWebViewers.set(file.path, leaf); setActiveLeaf
SetViewStateDone(p) ==
  /\ NoSpawnErrorPending
  /\ procs[p].cont = "setViewState"
  /\ procs' = [procs EXCEPT ![p].cont = "done"]
  /\ activeWebViewers' = [activeWebViewers EXCEPT ![procs[p].key] = p]
  /\ b2b' = <<>>
  /\ UNCHANGED <<activePreviewProcesses, leaves, nspawned, useWebViewer,
                 isMobile, unloaded>>

\* the setTimeout callback of startPreviewAndGetUrl (10000 ms):
\* cleanup(); resolve(null); new Notice('Preview startup timed out')
Timeout(p) ==
  /\ NoSpawnErrorPending
  /\ procs[p].timer
  /\ procs' = [procs EXCEPT ![p] = [resolveNull(cleanup(@)) EXCEPT !.notice = "timeout"]]
  /\ b2b' = <<>>
  /\ UNCHANGED <<activePreviewProcesses, activeWebViewers, leaves, nspawned,
                 useWebViewer, isMobile, unloaded>>

\* the 'error' handler of startPreviewAndGetUrl: cleanup(); resolve(null)
errorHandlerNoResolve(pr) ==
  IF pr.kind = "url" /\ pr.lst THEN cleanup(pr) ELSE pr

errorHandler(pr) ==
  IF pr.kind = "url" /\ pr.lst THEN resolveNull(cleanup(pr)) ELSE pr

\* the 'close' handler: this.activePreviewProcesses.delete(file.path)
closeHandlerClears(app, pr) ==
  IF pr.lst THEN [k \in Keys |-> NoProc] ELSE app

closeHandler(app, pr) ==
  IF pr.lst THEN [app EXCEPT ![pr.key] = NoProc] ELSE app

\* a failed spawn: the child emits 'error' and then 'close'. With no 'error'
\* listener attached (startPreview installs none) the emit throws inside the
\* child's exit callback, and whether 'close' is still emitted is left open.
SpawnError(p) ==
  /\ procs[p].st = "failed"
  /\ \E closeEmitted \in BOOLEAN :
       /\ (procs[p].kind = "url" /\ procs[p].lst) => closeEmitted
       /\ activePreviewProcesses' =
            IF closeEmitted
              THEN closeHandler(activePreviewProcesses, errorHandler(procs[p]))
              ELSE activePreviewProcesses
  /\ procs' = [procs EXCEPT ![p] = [errorHandler(@) EXCEPT !.st = "closed"]]
  /\ b2b' = <<>>
  /\ UNCHANGED <<activeWebViewers, leaves, nspawned, useWebViewer, isMobile,
                 unloaded>>

\* the child terminates, with an exit code of its own or by the signal, and
\* emits 'close'; the handlers take no argument, the code goes unread
ProcClose(p, code) ==
  /\ NoSpawnErrorPending
  /\ procs[p].st = "alive"
  /\ procs' = [procs EXCEPT ![p].st = "closed"]
  /\ activePreviewProcesses' = closeHandler(activePreviewProcesses, procs[p])
  /\ b2b' = <<>>
  /\ UNCHANGED <<activeWebViewers, leaves, nspawned, useWebViewer, isMobile,
                 unloaded>>

\* onunload: stopAllPreviews(); detach every tracked leaf; clear the pane map
OnUnload ==
  /\ NoSpawnErrorPending
  /\ ~unloaded
  /\ unloaded' = TRUE
  /\ activePreviewProcesses' = stopAllPreviews(Reg).app
  /\ procs' = stopAllPreviews(Reg).procs
  /\ leaves' = [p \in Pids |->
                  IF \E k \in Keys : activeWebViewers[k] = p
                    THEN "detached" ELSE leaves[p]]
  /\ activeWebViewers' = [k \in Keys |-> NoLeaf]
  /\ b2b' = <<>>
  /\ UNCHANGED <<nspawned, useWebViewer, isMobile>>

Next ==
  \/ \E k \in Keys : TogglePreview(k)
  \/ SetUseWebViewer
  \/ \E p \in Pids, c \in Chunks : StdoutData(p, c)
  \/ \E p \in Pids : SetViewStateDone(p)
  \/ \E p \in Pids : Timeout(p)
  \/ \E p \in Pids : SpawnError(p)
  \/ \E p \in Pids, code \in ExitCodes : ProcClose(p, code)
  \/ OnUnload

Spec == Init /\ [][Next]_vars

\* ------------------------------------------------- one file, richer stdout
\* The sessions of a single file whose children write StdoutChunks. The
\* history variable here marks a marker that arrived after the promise had
\* been resolved with a URL: <<key, 0, URL of the late marker>>.
StdoutKeys == {"a.qmd"}

LateMarker(p, c) ==
  /\ procs[p].promise = "url"
  /\ urlOf[c] # <<>>

StdoutDataOf(p, c) ==
  /\ StdoutStep(p, c)
  /\ b2b' = IF LateMarker(p, c) THEN <<procs[p].key, 0, urlOf[c]>> ELSE <<>>

NextStdout ==
  \/ \E k \in StdoutKeys : TogglePreview(k)
  \/ \E p \in Pids, c \in StdoutChunks : StdoutDataOf(p, c)
  \/ \E p \in Pids : SetViewStateDone(p)
  \/ \E p \in Pids : Timeout(p)
  \/ \E p \in Pids : SpawnError(p)
  \/ \E p \in Pids, code \in ExitCodes : ProcClose(p, code)

SpecStdout == Init /\ [][NextStdout]_vars

\* ------------------------------------------------- one file, split lines
\* The sessions of a single file whose children write SplitChunks. The
\* history variable holds <<"stdout", p, text>>: the text child p has written
\* with its last chunk, after the chunk before it when that one did not end
\* its line.
Join(a, b) ==
  IF a # <<>> /\ b # <<>> /\ a[Len(a)] = "BA1" /\ b[1] = "BA2"
    THEN SubSeq(a, 1, Len(a) - 1) \o <<"BA">> \o Tail(b)
    ELSE a \o b

StdoutSplit(p, c) ==
  /\ StdoutStep(p, c)
  /\ b2b' = <<"stdout", p,
              IF /\ Len(b2b) = 3
                 /\ b2b[1] = "stdout"
                 /\ b2b[2] = p
                 /\ b2b[3] \in SplitChunks
                 /\ b2b[3][Len(b2b[3])] # "NL"
                THEN Join(b2b[3], c)
                ELSE c>>

NextSplit ==
  \/ \E k \in StdoutKeys : TogglePreview(k)
  \/ \E p \in Pids, c \in SplitChunks : StdoutSplit(p, c)
  \/ \E p \in Pids : SetViewStateDone(p)
  \/ \E p \in Pids : Timeout(p)
  \/ \E p \in Pids : SpawnError(p)
  \/ \E p \in Pids, code \in ExitCodes : ProcClose(p, code)

SpecSplit == Init /\ [][NextSplit]_vars

\* ------------------------------------------------ two files, plain stdout
\* The whole plugin with the children's output reduced to the two kinds of
\* chunk the handler tells apart: one with the marker and one without.
KeyChunks ==
  { <<"BA", "SP", "HTTP", "HOST", "NL">>,
    <<"TXT", "NL">> }

NextKeys ==
  \/ \E k \in Keys : TogglePreview(k)
  \/ SetUseWebViewer
  \/ \E p \in Pids, c \in KeyChunks : StdoutData(p, c)
  \/ \E p \in Pids : SetViewStateDone(p)
  \/ \E p \in Pids : Timeout(p)
  \/ \E p \in Pids : SpawnError(p)
  \/ \E p \in Pids, code \in ExitCodes : ProcClose(p, code)
  \/ OnUnload

SpecKeys == Init /\ [][NextKeys]_vars

\* ---------------------------------------------- one file, the event loop
\* The sessions of a single file with the teardown, under the guarantees of
\* the event loop: a timer that is armed fires, and the 'error' of a failed
\* spawn, queued with process.nextTick, is emitted.
NextSettle ==
  \/ \E k \in StdoutKeys : TogglePreview(k)
  \/ SetUseWebViewer
  \/ \E p \in Pids, c \in KeyChunks : StdoutData(p, c)
  \/ \E p \in Pids : SetViewStateDone(p)
  \/ \E p \in Pids : Timeout(p)
  \/ \E p \in Pids : SpawnError(p)
  \/ \E p \in Pids, code \in ExitCodes : ProcClose(p, code)
  \/ OnUnload

SpecSettle ==
  /\ Init
  /\ [][NextSettle]_vars
  /\ \A p \in Pids : WF_vars(Timeout(p)) /\ WF_vars(SpawnError(p))

\* ------------------------------------------------ kills that cannot be sent
\* process.kill() on a live child whose signal the system refuses (EPERM):
\* kill() leaves 'killed' false, emits 'error' on the child and returns false.
\* The 'error' listener of startPreviewAndGetUrl, while attached, takes the
\* event; with no listener the emit throws out of kill().
killThrows(pr) == ~(pr.kind = "url" /\ pr.lst)

killFails(pr) == errorHandler(pr)

CanFailKill(p) ==
  /\ p # NoProc
  /\ procs[p].st = "alive"
  /\ ~procs[p].killed

\* stopPreview when kill() of the registered child fails: a throw leaves the
\* method before activePreviewProcesses.delete
stopPreviewKillFails(S, k) ==
  LET p == S.app[k]
  IN  IF killThrows(S.procs[p])
        THEN S
        ELSE [app |-> [S.app EXCEPT ![k] = NoProc],
              procs |-> [S.procs EXCEPT ![p] = killFails(@)]]

\* togglePreview(k) on its stop branch when kill() fails. toggleWebViewer has
\* detached the pane and dropped it from activeWebViewers before stopPreview.
TogglePreviewKillFails(k) ==
  /\ ~unloaded
  /\ CanFailKill(activePreviewProcesses[k])
  /\ IF useWebViewer /\ ~isMobile
       THEN /\ activeWebViewers[k] # NoLeaf
            /\ leaves' = [leaves EXCEPT ![activeWebViewers[k]] = "detached"]
            /\ activeWebViewers' = [activeWebViewers EXCEPT ![k] = NoLeaf]
       ELSE UNCHANGED <<activeWebViewers, leaves>>
  /\ activePreviewProcesses' = stopPreviewKillFails(Reg, k).app
  /\ procs' = stopPreviewKillFails(Reg, k).procs
  /\ b2b' = <<>>
  /\ UNCHANGED <<nspawned, useWebViewer, isMobile, unloaded>>

\* stopAllPreviews when kill() of child f fails. forEach visits the entries in
\* insertion order, which is the order of the process numbers as long as no
\* key is set again while it is registered. A throw ends the forEach there
\* and clear() is not reached.
stopAllPreviewsKillFails(S, f) ==
  IF killThrows(S.procs[f])
    THEN [app |-> S.app,
          procs |-> [p \in Pids |->
                       IF p < f /\ (\E k \in Keys : S.app[k] = p) /\ ~S.procs[p].killed
                         THEN kill(S.procs[p], "stopAllPreviews") ELSE S.procs[p]]]
    ELSE [app |-> [k \in Keys |-> NoProc],
          procs |-> [p \in Pids |->
                       IF p = f THEN killFails(S.procs[p])
                       ELSE IF (\E k \in Keys : S.app[k] = p) /\ ~S.procs[p].killed
                         THEN kill(S.procs[p], "stopAllPreviews") ELSE S.procs[p]]]

\* onunload when kill() of the registered child f fails: a throw out of
\* stopAllPreviews skips the detaching of the panes
OnUnloadKillFails(f) ==
  /\ NoSpawnErrorPending
  /\ ~unloaded
  /\ \E k \in Keys : activePreviewProcesses[k] = f
  /\ CanFailKill(f)
  /\ unloaded' = TRUE
  /\ activePreviewProcesses' = stopAllPreviewsKillFails(Reg, f).app
  /\ procs' = stopAllPreviewsKillFails(Reg, f).procs
  /\ IF killThrows(procs[f])
       THEN UNCHANGED <<leaves, activeWebViewers>>
       ELSE /\ leaves' = [p \in Pids |->
                            IF \E k \in Keys : activeWebViewers[k] = p
                              THEN "detached" ELSE leaves[p]]
            /\ activeWebViewers' = [k \in Keys |-> NoLeaf]
  /\ b2b' = <<>>
  /\ UNCHANGED <<nspawned, useWebViewer, isMobile>>

NextKill ==
  \/ \E k \in Keys : TogglePreview(k)
  \/ \E k \in Keys : TogglePreviewKillFails(k)
  \/ SetUseWebViewer
  \/ \E p \in Pids, c \in Chunks : StdoutData(p, c)
  \/ \E p \in Pids : SetViewStateDone(p)
  \/ \E p \in Pids : Timeout(p)
  \/ \E p \in Pids : SpawnError(p)
  \/ \E p \in Pids, code \in ExitCodes : ProcClose(p, code)
  \/ OnUnload
  \/ \E f \in Pids : OnUnloadKillFails(f)

SpecKill == Init /\ [][NextKill]_vars

\* ------------------------------------------- file-open and the child's env
\* The plugin loaded with settings.autoPreview on, so that onload has
\* registered the 'file-open' handler, and with the environment of each
\* spawn written down. The history variable holds <<"file-open", key>> after
\* the handler has run and <<key, inherited, quartoTypst, child's env>>
\* after a toggle that spawned.
EnvVars == {"QUARTO_TYPST", "PATH"}

\* process.env of Obsidian
InheritedEnvs == [EnvVars -> {"unset", "v1"}]

\* a QUARTO_TYPST value kept in the plugin's saved settings as it was typed,
\* "" for none
QuartoTypstValues == {"", " ", "v2", " v2 "}

\* the environment spawn() gives the child: the options hold cwd only, so
\* the child gets process.env as it is
spawnEnv(inherited, quartoTypst) == inherited

\* the 'file-open' handler: if (file && this.isQuartoFile(file)) togglePreview(file)
FileOpen(k) ==
  /\ ~unloaded
  /\ IF useWebViewer /\ ~isMobile
       THEN toggleWebViewer(k)
       ELSE toggleExternalPreview(k)
  /\ b2b' = <<"file-open", k>>
  /\ UNCHANGED <<useWebViewer, isMobile, unloaded>>

\* togglePreview(k) that reaches spawn()
TogglePreviewSpawns(k, inherited, quartoTypst) ==
  /\ ~unloaded
  /\ IF useWebViewer /\ ~isMobile
       THEN toggleWebViewer(k)
       ELSE toggleExternalPreview(k)
  /\ nspawned' = nspawned + 1
  /\ b2b' = <<k, inherited, quartoTypst, spawnEnv(inherited, quartoTypst)>>
  /\ UNCHANGED <<useWebViewer, isMobile, unloaded>>

NextHost ==
  \/ \E k \in Keys : TogglePreview(k)
  \/ \E k \in Keys : FileOpen(k)
  \/ \E k \in Keys, inherited \in InheritedEnvs, quartoTypst \in QuartoTypstValues :
       TogglePreviewSpawns(k, inherited, quartoTypst)
  \/ SetUseWebViewer
  \/ \E p \in Pids, c \in KeyChunks : StdoutData(p, c)
  \/ \E p \in Pids : SetViewStateDone(p)
  \/ \E p \in Pids : Timeout(p)
  \/ \E p \in Pids : SpawnError(p)
  \/ \E p \in Pids, code \in ExitCodes : ProcClose(p, code)
  \/ OnUnload

SpecHost == Init /\ [][NextHost]_vars

\* ----------------------------------------------- the file the user acts on
\* The three entry points of onload with any file of the vault as the active
\* or opened file, the plugin loaded with settings.autoPreview on. A file is
\* Obsidian's TFile with its path and its extension; the registries are keyed
\* by path. The history variable holds <<"notice", text, path>> after the
\* ribbon or the command has shown the notice.
Files ==
  {[path |-> "a.qmd", extension |-> "qmd"],
   [path |-> "notes.md", extension |-> "md"],
   [path |-> "B.QMD", extension |-> "QMD"]}

\* no active markdown view (activeView?.file undefined), or file-open with null
NoFile == [path |-> "", extension |-> ""]

FileInputs == Files \cup {NoFile}

FilePaths == {f.path : f \in Files}

isQuartoFileAnyFile(file) == TRUE

isQuartoFile(file) == file.extension = "qmd"

InitFiles ==
  /\ activePreviewProcesses = [k \in FilePaths |-> NoProc]
  /\ activeWebViewers = [k \in FilePaths |-> NoLeaf]
  /\ procs = [p \in Pids |-> Unspawned]
  /\ leaves = [p \in Pids |-> "none"]
  /\ nspawned = 0
  /\ useWebViewer = TRUE
  /\ isMobile \in BOOLEAN
  /\ unloaded = FALSE
  /\ b2b = <<>>

\* new Notice('Current file is not a Quarto document')
NotQuartoNotice(file) ==
  /\ ~unloaded
  /\ b2b' = <<"notice", "Current file is not a Quarto document", file.path>>
  /\ UNCHANGED <<activePreviewProcesses, activeWebViewers, procs, leaves,
                 nspawned, useWebViewer, isMobile, unloaded>>

\* the callback of the ribbon icon
RibbonIconClick(file) ==
  IF file # NoFile /\ isQuartoFile(file)
    THEN TogglePreview(file.path)
    ELSE NotQuartoNotice(file)

\* the callback of the command 'toggle-quarto-preview'
ToggleQuartoPreviewCommand(file) ==
  IF file # NoFile /\ isQuartoFile(file)
    THEN TogglePreview(file.path)
    ELSE NotQuartoNotice(file)

\* the 'file-open' handler with its guard
FileOpenHook(file) ==
  IF file # NoFile /\ isQuartoFile(file)
    THEN FileOpen(file.path)
    ELSE /\ ~unloaded
         /\ b2b' = <<>>
         /\ UNCHANGED <<activePreviewProcesses, activeWebViewers, procs, leaves,
                        nspawned, useWebViewer, isMobile, unloaded>>

NextFiles ==
  \/ \E file \in FileInputs : RibbonIconClick(file)
  \/ \E file \in FileInputs : ToggleQuartoPreviewCommand(file)
  \/ \E file \in FileInputs : FileOpenHook(file)
  \/ SetUseWebViewer
  \/ \E p \in Pids, c \in KeyChunks : StdoutData(p, c)
  \/ \E p \in Pids : SetViewStateDone(p)
  \/ \E p \in Pids : Timeout(p)
  \/ \E p \in Pids : SpawnError(p)
  \/ \E p \in Pids, code \in ExitCodes : ProcClose(p, code)

SpecFiles == InitFiles /\ [][NextFiles]_vars

TypeOK ==
  /\ activePreviewProcesses \in [Keys -> 0..MaxProcs]
  /\ activeWebViewers \in [Keys -> 0..MaxProcs]
  /\ nspawned \in 0..MaxProcs
  /\ \A p \in Pids : (procs[p].st = "unspawned") <=> (p > nspawned)

\* ---------------------------------------------------------------- claims
Registered(p) == \E k \in Keys : activePreviewProcesses[k] = p

\* the children of key k that are running and have not been sent a signal
LiveSessions(k) ==
  { p \in Pids : procs[p].key = k /\ procs[p].st = "alive" /\ procs[p].kills = 0 }

\* C1: for every key there is at most one spawned process that has neither
\* exited nor been sent a kill signal.
C1_AtMostOneLiveSession ==
  \A k \in Keys : Cardinality(LiveSessions(k)) <= 1

\* C2: after two back-to-back togglePreview(k) calls on a key without session
\* exactly one process has been spawned for k and it is the registered,
\* unsignaled session of k.
C2_BackToBackTogglesOneSession ==
  \A k \in Keys :
    b2b = <<k, 2>> =>
      /\ Cardinality({ p \in Pids : procs[p].key = k /\ procs[p].st # "closed" }) = 1
      /\ activePreviewProcesses[k] # NoProc
      /\ ~procs[activePreviewProcesses[k]].killed

\* C3: at the step that reports the start timeout the process has received
\* exactly one kill signal.
C3_TimeoutKillsOnce ==
  [][\A p \in Pids :
       (procs[p].notice # "timeout" /\ procs'[p].notice = "timeout")
         => procs'[p].kills = 1]_vars

\* C4: after onunload the registry is empty and no spawned process is both
\* alive and unsignaled.
C4_TeardownLeavesNothingAlive ==
  unloaded =>
    /\ \A k \in Keys : activePreviewProcesses[k] = NoProc
    /\ \A p \in Pids : procs[p].st = "alive" => procs[p].kills > 0

\* C5: stopAllPreviews (run by onunload) leaves the registry empty and every
\* process that was registered, alive and unsignaled has received exactly one
\* termination signal.
C5_StopAllSignalsEachOnce ==
  [][OnUnload =>
       /\ \A k \in Keys : activePreviewProcesses'[k] = NoProc
       /\ \A p \in Pids :
            (Registered(p) /\ procs[p].st = "alive" /\ procs[p].kills = 0)
              => procs'[p].kills = 1]_vars

\* two sessions Running under distinct keys have been torn down together
C5_Witness ==
  /\ unloaded
  /\ \E p, q \in Pids :
       /\ procs[p].key # procs[q].key
       /\ \A r \in {p, q} :
            /\ procs[r].promise = "url"
            /\ procs[r].killedBy = "stopAllPreviews"
            /\ procs[r].kills = 1

\* C6: once a start has failed (the promise resolved null) its process is not
\* registered under its key.
C6_FailedStartLeavesNoEntry ==
  \A p \in Pids :
    procs[p].promise = "null" => activePreviewProcesses[procs[p].key] # p

\* C7: when the process exits on its own before readiness, the start is
\* settled at once with an outcome other than the timeout, and the key is not
\* registered any more.
C7_CrashBeforeReadinessFailsStart ==
  [][\A p \in Pids, code \in ExitCodes :
       (ProcClose(p, code) /\ procs[p].kind = "url"
          /\ procs[p].promise = "pending" /\ ~procs[p].killed)
         => /\ procs'[p].promise = "null"
            /\ procs'[p].notice # "timeout"
            /\ activePreviewProcesses'[procs[p].key] = NoProc]_vars

\* C8: after a failed spawn (the child's 'error' event) the process is not
\* registered under its key.
C8_SpawnFailureLeavesNoEntry ==
  [][\A p \in Pids :
       SpawnError(p) => activePreviewProcesses'[procs[p].key] # p]_vars

\* C9: every registered process is still alive or about to be reaped: none
\* has its close event behind it.
C9_RegisteredImpliesNotClosed ==
  \A k \in Keys :
    activePreviewProcesses[k] # NoProc
      => procs[activePreviewProcesses[k]].st # "closed"

\* C10: stopPreview(key) twice gives the registry and the kill signals of
\* stopPreview(key) once, and on a key without entry it changes nothing.
C10_StopPreviewIdempotent ==
  \A k \in Keys :
    /\ stopPreview(stopPreview(Reg, k), k) = stopPreview(Reg, k)
    /\ activePreviewProcesses[k] = NoProc => stopPreview(Reg, k) = Reg

\* stopPreview has killed a process while another live session is registered
C10_Witness ==
  \E p, q \in Pids :
    /\ procs[p].killedBy = "stopPreview"
    /\ activePreviewProcesses[procs[p].key] = NoProc
    /\ Registered(q) /\ procs[q].st = "alive" /\ ~procs[q].killed

\* whether the session of key k is Running: its registered child is alive,
\* unsignaled and, when started by startPreviewAndGetUrl, has shown its URL
Running(k) ==
  /\ activePreviewProcesses[k] # NoProc
  /\ LET pr == procs[activePreviewProcesses[k]]
     IN  /\ pr.st = "alive"
         /\ ~pr.killed
         /\ pr.kind = "url" => pr.promise = "url"

\* whether togglePreview(k) takes its start branch in the current state
StartCalled(k) ==
  IF useWebViewer /\ ~isMobile
    THEN activeWebViewers[k] = NoLeaf
    ELSE activePreviewProcesses[k] = NoProc

\* C11: a start for a key whose session is Running spawns no process and
\* leaves the registered session in place.
C11_StartWhileRunningSpawnsNothing ==
  [][\A k \in Keys :
       (TogglePreview(k) /\ StartCalled(k) /\ Running(k))
         => /\ nspawned' = nspawned
            /\ activePreviewProcesses'[k] = activePreviewProcesses[k]]_vars

\* the URLs a child can show on its stdout
ShownUrls == { urlOf[c] : c \in Chunks } \ {<<>>}

\* C12: a pane exists for a start (being set up, open or tracked in
\* activeWebViewers) only if the promise of that start was resolved by a
\* readiness marker of its own process, and the URL is the one matched there.
C12_PaneOnlyAfterReady ==
  /\ \A p \in Pids :
       (leaves[p] # "none" \/ procs[p].cont = "setViewState")
         => /\ procs[p].kind = "url"
            /\ procs[p].promise = "url"
            /\ procs[p].endpoint \in ShownUrls
  /\ \A k \in Keys :
       activeWebViewers[k] # NoLeaf
         => /\ procs[activeWebViewers[k]].key = k
            /\ procs[activeWebViewers[k]].promise = "url"
            /\ procs[activeWebViewers[k]].endpoint \in ShownUrls
            /\ leaves[activeWebViewers[k]] = "open"

\* a pane showing the URL of its start is tracked
C12_Witness ==
  \E k \in Keys :
    /\ activeWebViewers[k] # NoLeaf
    /\ procs[activeWebViewers[k]].endpoint = <<"HTTP", "HOST">>

\* the URL schemes of the readiness marker as the specification words it
MarkerSchemes == {"HTTP", "HTTPS"}

\* chunk c holds 'Browse at' at i, whitespace up to j, and from j to e a URL
\* (scheme and at least one more token) that ends at whitespace or at the end
MarkerAt(c, i, j, e) ==
  /\ c[i] = "BA"
  /\ j > i + 1
  /\ \A m \in (i + 1)..(j - 1) : IsSpace(c[m])
  /\ c[j] \in MarkerSchemes
  /\ e > j
  /\ \A m \in j..e : ~IsSpace(c[m])
  /\ e = Len(c) \/ IsSpace(c[e + 1])

\* C13: a chunk with 'Browse at', whitespace and an http:// or https:// URL
\* resolves a pending start with exactly that URL.
C13_BothSchemesAccepted ==
  [][\A p \in Pids : \A c \in Chunks :
       (StdoutData(p, c) /\ procs[p].promise = "pending")
         => \A i \in 1..Len(c) : \A j \in 1..Len(c) : \A e \in 1..Len(c) :
              MarkerAt(c, i, j, e)
                => /\ procs'[p].promise = "url"
                   /\ procs'[p].endpoint = SubSeq(c, j, e)]_vars

\* the chunks that hold a marker the handler recognises
MarkerChunks == { c \in StdoutChunks : urlOf[c] # <<>> }

\* whether the step leaves the start of p settled as it was and the panes alone
StartUntouched(p) ==
  /\ procs'[p].promise = procs[p].promise
  /\ procs'[p].endpoint = procs[p].endpoint
  /\ procs'[p].cont = procs[p].cont
  /\ procs'[p].notice = procs[p].notice
  /\ leaves' = leaves
  /\ activeWebViewers' = activeWebViewers

\* C14: once the promise of a start is resolved with a URL, a later marker of
\* the same process changes neither the promise nor the endpoint, opens no
\* pane and does not run the continuation of the start again.
C14_FirstMarkerFixesEndpoint ==
  [][\A p \in Pids :
       procs[p].promise = "url"
         => \/ StartUntouched(p)
            \/ ~\E c \in MarkerChunks : StdoutStep(p, c)]_vars

\* a marker with another URL has just arrived at a process whose start had
\* returned the first one
C14_Witness ==
  \E p \in Pids :
    /\ b2b = <<procs[p].key, 0, <<"HTTP", "HOST2">>>>
    /\ procs[p].promise = "url"
    /\ procs[p].endpoint = <<"HTTP", "HOST">>
    /\ leaves[p] = "open"

\* C15: when stopPreview has returned for a process it signaled, the exit of
\* that process has been observed.
C15_StopWaitsForExit ==
  \A p \in Pids :
    procs[p].killedBy = "stopPreview" => procs[p].st = "closed"

\* C16: when the kill of one child fails during stopAllPreviews, every other
\* registered, unsignaled child is signaled once and the registry ends empty.
C16_SweepCompletesOnKillFailure ==
  [][\A f \in Pids :
       OnUnloadKillFails(f)
         => /\ \A k \in Keys : activePreviewProcesses'[k] = NoProc
            /\ \A p \in Pids \ {f} :
                 (Registered(p) /\ procs[p].st = "alive" /\ ~procs[p].killed)
                   => procs'[p].kills = procs[p].kills + 1]_vars

\* C17: when the kill fails during stopPreview, the entry of the key is
\* removed and a notice about the child is shown.
C17_KillFailureRemovesEntryAndReports ==
  [][\A k \in Keys :
       TogglePreviewKillFails(k)
         => /\ activePreviewProcesses'[k] = NoProc
            /\ procs'[activePreviewProcesses[k]].notice
                 # procs[activePreviewProcesses[k]].notice]_vars

\* C18: when the start has its URL but getRightLeaf gives no pane, the
\* failure is shown in a notice and the session stays as it is: the child is
\* not signaled and the registry is not touched.
C18_PaneFailureReportedNoRollback ==
  [][\A p \in Pids :
       (/\ procs[p].promise = "pending"
        /\ procs'[p].promise = "url"
        /\ leaves'[p] = "none"
        /\ \E c \in Chunks : StdoutStep(p, c))
         => /\ procs'[p].notice = "paneFail"
            /\ procs'[p].st = "alive"
            /\ procs'[p].killed = procs[p].killed
            /\ procs'[p].kills = procs[p].kills
            /\ activePreviewProcesses' = activePreviewProcesses]_vars

\* a session whose pane could not be created: registered, alive, unsignaled
C18_Witness ==
  \E p \in Pids :
    /\ procs[p].notice = "paneFail"
    /\ procs[p].promise = "url"
    /\ leaves[p] = "none"
    /\ Registered(p)
    /\ procs[p].st = "alive"
    /\ ~procs[p].killed

\* C19: the setting starts as embedded, and every togglePreview runs
\* toggleExternalPreview exactly when the platform is mobile or useWebViewer
\* is off, toggleWebViewer otherwise, never both.
C19_VariantSelection ==
  /\ useWebViewer = TRUE
  /\ [][\A k \in Keys :
          TogglePreview(k)
            => IF isMobile \/ ~useWebViewer
                 THEN toggleExternalPreview(k) /\ ~toggleWebViewer(k)
                 ELSE toggleWebViewer(k) /\ ~toggleExternalPreview(k)]_vars

\* both variants have been used: one child of each kind, the external one on
\* the desktop after the setting was turned off
C19_Witness ==
  /\ ~isMobile
  /\ \E p \in Pids : procs[p].kind = "url"
  /\ \E p \in Pids : procs[p].kind = "plain"

\* the steps that belong to key k: its toggle and the events of its children
StepOfKey(k) ==
  \/ TogglePreview(k)
  \/ \E p \in Pids :
       /\ procs[p].key = k
       /\ \/ \E c \in KeyChunks : StdoutData(p, c)
          \/ SetViewStateDone(p)
          \/ Timeout(p)
          \/ SpawnError(p)
          \/ \E code \in ExitCodes : ProcClose(p, code)

\* whether the step leaves what belongs to the keys other than k as it is:
\* their registry entries, tracked panes, children and panes
OthersUntouched(k) ==
  \A k2 \in Keys \ {k} :
    /\ activePreviewProcesses'[k2] = activePreviewProcesses[k2]
    /\ activeWebViewers'[k2] = activeWebViewers[k2]
    /\ \A q \in Pids :
         procs[q].key = k2 => procs'[q] = procs[q] /\ leaves'[q] = leaves[q]

\* C20: a step that belongs to key k leaves the registry entry, the tracked
\* pane, the children and the panes of every other key as they are.
C20_KeysIndependent ==
  [][\A k \in Keys : OthersUntouched(k) \/ ~StepOfKey(k)]_vars

\* a child of one key has exited while the session of another key is
\* registered and alive
C20_Witness ==
  \E p \in Pids : \E q \in Pids :
    /\ procs[p].st = "closed"
    /\ procs[q].st = "alive"
    /\ Registered(q)
    /\ procs[p].key # procs[q].key

\* C21: when a process that stopPreview has stopped closes, the registry
\* entry of a session started on the same key in the meantime stays.
C21_LateCloseKeepsNewEntry ==
  [][\A p \in Pids : \A code \in ExitCodes :
       (procs[p].killedBy = "stopPreview" /\ ProcClose(p, code))
         => \A k \in Keys :
              (activePreviewProcesses[k] # NoProc /\ activePreviewProcesses[k] # p)
                => activePreviewProcesses'[k] = activePreviewProcesses[k]]_vars

\* whether the session of child p is Starting or Running: p is registered
\* under its key, has not been signaled, and its start has not failed
StartingOrRunning(p) ==
  /\ procs[p].st = "alive"
  /\ activePreviewProcesses[procs[p].key] = p
  /\ ~procs[p].killed
  /\ procs[p].promise # "null"

\* C22: when a child whose session is Starting or Running exits with a
\* nonzero code, a notice about that child is shown.
C22_NonzeroExitReported ==
  [][\A p \in Pids :
       (StartingOrRunning(p) /\ ProcClose(p, "1"))
         => procs'[p].notice # procs[p].notice]_vars

\* the inherited environment with the configured QUARTO_TYPST laid over it
MergedEnv(inherited, quartoTypst) ==
  [v \in EnvVars |->
     IF v = "QUARTO_TYPST" /\ quartoTypst # "" THEN quartoTypst ELSE inherited[v]]

\* C23: the environment of a spawned child is the inherited environment with
\* the configured QUARTO_TYPST in place of the inherited one.
C23_ChildEnvMergesOverrides ==
  Len(b2b) = 4 => b2b[4] = MergedEnv(b2b[2], b2b[3])

\* C24: after the 'file-open' handler has run for a file, the file has a
\* registered session, and none of its children was signaled by the handler.
C24_FileOpenStartsNeverStops ==
  [][\A k \in Keys :
       FileOpen(k)
         => /\ activePreviewProcesses'[k] # NoProc
            /\ \A p \in Pids :
                 procs[p].key = k => procs'[p].kills = procs[p].kills]_vars

\* whether key k has a session that is not over: a registered child that is
\* alive and has not been signaled, whatever the state of its start
SessionExists(k) ==
  /\ activePreviewProcesses[k] # NoProc
  /\ procs[activePreviewProcesses[k]].st = "alive"
  /\ ~procs[activePreviewProcesses[k]].killed

\* C25: togglePreview(k) on a key whose session is not over signals the
\* child of that session, removes its entry and spawns nothing.
C25_ToggleStopsExistingSession ==
  [][\A k \in Keys :
       (SessionExists(k) /\ TogglePreview(k))
         => /\ nspawned' = nspawned
            /\ procs'[activePreviewProcesses[k]].killed
            /\ activePreviewProcesses'[k] = NoProc]_vars

\* C26: when the text a child has written holds a complete marker line, in
\* one chunk or in two, a start that has not failed has that line's whole
\* URL as its endpoint.
C26_SplitMarkerDetected ==
  \A p \in Pids :
    (Len(b2b) = 3 /\ b2b[1] = "stdout" /\ b2b[2] = p /\ procs[p].promise # "null")
      => \A i \in 1..Len(b2b[3]) : \A j \in 1..Len(b2b[3]) :
           \A e \in 1..(Len(b2b[3]) - 1) :
             MarkerAt(b2b[3], i, j, e)
               => /\ procs[p].promise = "url"
                  /\ procs[p].endpoint = SubSeq(b2b[3], j, e)

Settled(p) == procs[p].promise \in {"url", "null"}

\* C27: a pending start always has its timer armed, the timer's callback
\* settles it, a settled promise keeps its value, and every pending start
\* is settled in the end.
C27_StartSettlesOnce ==
  /\ [](\A p \in Pids : procs[p].promise = "pending" => procs[p].timer)
  /\ [][\A p \in Pids :
          /\ Timeout(p) => Settled(p)'
          /\ Settled(p) => /\ procs'[p].promise = procs[p].promise
                           /\ procs'[p].endpoint = procs[p].endpoint]_vars
  /\ \A p \in Pids : (procs[p].promise = "pending") ~> Settled(p)

\* a start settled by its timer after stopAllPreviews had killed the child
C27_Witness ==
  \E p \in Pids :
    /\ procs[p].promise = "null"
    /\ procs[p].notice = "timeout"
    /\ procs[p].killedBy = "stopAllPreviews"

\* C28: the step in which a marker resolves a pending start leaves the child
\* alive and the registry as it was, gives the start the marker's URL and
\* disarms the timer; from then on the start keeps its URL, the timer stays
\* disarmed and no timeout notice is shown for it.
C28_ReadyCancelsTimeout ==
  [][\A p \in Pids :
       /\ (procs[p].promise = "pending" /\ procs'[p].promise = "url")
            => /\ procs'[p].st = "alive"
               /\ procs'[p].endpoint \in ShownUrls
               /\ ~procs'[p].timer
               /\ procs'[p].notice # "timeout"
               /\ activePreviewProcesses' = activePreviewProcesses
       /\ procs[p].promise = "url"
            => /\ procs'[p].promise = "url"
               /\ ~procs'[p].timer
               /\ procs'[p].notice # "timeout"]_vars

\* a session that is Running after its marker: registered, alive, pane open
C28_Witness ==
  \E p \in Pids :
    /\ procs[p].promise = "url"
    /\ activePreviewProcesses[procs[p].key] = p
    /\ procs[p].st = "alive"
    /\ ~procs[p].killed
    /\ leaves[p] = "open"
    /\ ~procs[p].timer

\* C29: every pane that is open, once toggleWebViewer has returned for it, is
\* the pane tracked in activeWebViewers under the key of its start.
C29_OpenPanesTracked ==
  \A p \in Pids :
    (leaves[p] = "open" /\ procs[p].cont = "done")
      => activeWebViewers[procs[p].key] = p

\* C30: a key with a tracked pane has a registry entry.
C30_TrackedPaneImpliesEntry ==
  \A k \in Keys :
    activeWebViewers[k] # NoLeaf => activePreviewProcesses[k] # NoProc

\* the files of the vault that are not Quarto documents, and no file at all
NotQuartoInputs == {f \in FileInputs : f.extension # "qmd"}

EntryPoint(file) ==
  RibbonIconClick(file) \/ ToggleQuartoPreviewCommand(file) \/ FileOpenHook(file)

\* C31: every registered key, and the key of every spawned child, is the
\* path of a file whose extension is 'qmd'; and a step of the ribbon icon,
\* the command or the 'file-open' handler on a file whose extension is not
\* 'qmd' (or on no file) spawns nothing and leaves the registry as it was,
\* the ribbon and the command showing 'Current file is not a Quarto document'.
C31_OnlyQuartoFilesSpawn ==
  /\ [](/\ \A f \in Files :
             activePreviewProcesses[f.path] # NoProc => f.extension = "qmd"
        /\ \A p \in Pids :
             procs[p].st # "unspawned"
               => \E f \in Files : f.path = procs[p].key /\ f.extension = "qmd")
  /\ [][\A f \in NotQuartoInputs :
          /\ \/ /\ nspawned' = nspawned
                /\ activePreviewProcesses' = activePreviewProcesses
             \/ ~EntryPoint(f)
          /\ \/ b2b' = <<"notice", "Current file is not a Quarto document", f.path>>
             \/ ~(RibbonIconClick(f) \/ ToggleQuartoPreviewCommand(f))]_vars

\* the notice was just shown for notes.md while a.qmd has a session
C31_Witness ==
  /\ b2b = <<"notice", "Current file is not a Quarto document", "notes.md">>
  /\ activePreviewProcesses["a.qmd"] # NoProc

\* String.prototype.trim on the values of QuartoTypstValues
trim(value) ==
  CASE value = " " -> ""
    [] value = " v2 " -> "v2"
    [] OTHER -> value

\* C32: the environment of a spawned child has no QUARTO_TYPST when the
\* configured value is empty or whitespace only, whatever the inherited
\* environment holds, and has the trimmed configured value otherwise.
C32_EmptyUnsetsElseTrimmed ==
  Len(b2b) = 4
    => b2b[4]["QUARTO_TYPST"] =
         IF trim(b2b[3]) = "" THEN "unset" ELSE trim(b2b[3])

====
